---- MODULE Spec2Model ----
(***************************************************************************)
(* MergeTreeDataMerger: selection of a run of parts to merge               *)
(* (selectPartsToMerge) and its execution (mergeParts), as in              *)
(* src/unnamed/part_000.                                                   *)
(*                                                                         *)
(* Units.  Times are counted in hours instead of seconds (every time the   *)
(* model uses is a whole number of hours), so the constants 6*3600,        *)
(* 3600*24*15 and 3600*24*30 of the source appear as 6, 360 and 720.       *)
(* Real-valued expressions of the source (double) are computed in fixed    *)
(* point, in thousandths.                                                  *)
(***************************************************************************)
EXTENDS Integers, Sequences, FiniteSets, TLC

VARIABLES
    data_parts,         \* data.getDataParts(): the part set, ordered by (left_month, left)
    settings,           \* data.settings and data.index_granularity
    mode,               \* data.mode
    now,                \* time(0), in hours
    canceled,           \* MergeTreeDataMerger::canceled
    currently_merging,  \* names of the parts claimed by in-flight merges (what can_merge consults)
    pc,                 \* per worker: where it stands in selectPartsToMerge / mergeParts
    parts,              \* per worker: the DataPartsVector selected and passed to mergeParts
    new_data_part,      \* per worker: mergeParts' new_data_part
    src_streams,        \* per worker: input blocks of merged_stream not yet read
    to,                 \* per worker: the MergedBlockOutputStream
    result,             \* per worker: what mergeParts returned (or that it threw)
    sel,                \* per worker: arguments and result of its last selectPartsToMerge, kept until its parts are released
    tmp_parts           \* names of the output parts written to disk and not published

vars == <<data_parts, settings, mode, now, canceled, currently_merging, pc, parts,
          new_data_part, src_streams, to, result, sel, tmp_parts>>

(***************************************************************************)
(* Bounds of the model.                                                    *)
(***************************************************************************)
\* Number of parts of the initial part set of the merging workers.
MaxParts == 4
\* Number of parts of the snapshots given to one selectPartsToMerge call.
MaxSnapshot == 3
\* Number of background merge workers.
NumWorkers == 2

Workers == 1..NumWorkers

(***************************************************************************)
(* Program constants.                                                      *)
(***************************************************************************)
\* DISK_USAGE_COEFFICIENT_TO_SELECT = 1.6, in tenths.
DISK_USAGE_COEFFICIENT_TO_SELECT_x10 == 16
\* DISK_USAGE_COEFFICIENT_TO_RESERVE = 1.4, in tenths.
DISK_USAGE_COEFFICIENT_TO_RESERVE_x10 == 14
\* 1024*1024*1024
ONE_GIB == 1073741824
\* the factor 150 of "cur_max * data.index_granularity * 150"
BYTES_PER_ROW_ESTIMATE == 150
\* 6*3600 seconds
SIX_HOURS == 6
\* 3600*24*15 seconds
FIFTEEN_DAYS == 360
\* 3600*24*30 seconds
THIRTY_DAYS == 720
\* std::numeric_limits<UInt16>::max()
UINT16_MAX == 65535
\* -1U, the initial value of min_max, min_min, cur_longest_max, cur_longest_min.
\* It is never compared (found and cur_longest_len guard every use), so the
\* model keeps a value that fits its integers.
SIZE_NONE == 2147483647

Max(a, b) == IF a > b THEN a ELSE b
Min(a, b) == IF a < b THEN a ELSE b

(***************************************************************************)
(* DateLUT.  Day numbers count from 1970-01-01.                            *)
(***************************************************************************)
\* First days of January..May 1970.
MonthStarts == <<0, 31, 59, 90, 120>>

toFirstDayNumOfMonth(d) ==
    LET S == {MonthStarts[k] : k \in 1..Len(MonthStarts)}
    IN  CHOOSE m \in S : m <= d /\ \A m2 \in S : m2 <= d => m2 <= m

toDayNum(t) == t \div 24
toHourInaccurate(t) == t % 24

(***************************************************************************)
(* MergeTreeData::DataPart.                                                *)
(***************************************************************************)
getPartName(left_date, right_date, left, right, level) ==
    <<left_date, right_date, left, right, level>>

DataPart(left_date, right_date, left, right, level, size, size_in_bytes, modification_time) ==
    [ name              |-> getPartName(left_date, right_date, left, right, level),
      left_date         |-> left_date,
      right_date        |-> right_date,
      left_month        |-> toFirstDayNumOfMonth(left_date),
      right_month       |-> toFirstDayNumOfMonth(right_date),
      left              |-> left,
      right             |-> right,
      level             |-> level,
      size              |-> size,
      size_in_bytes     |-> size_in_bytes,
      modification_time |-> modification_time ]

Names(ps) == {ps[k].name : k \in 1..Len(ps)}

(***************************************************************************)
(* selectPartsToMerge.                                                     *)
(* a: the arguments of the call, [available_disk_space, merge_anything_    *)
(* for_old_months, aggressive, only_small, claimed]; claimed stands for    *)
(* the state can_merge consults.                                           *)
(***************************************************************************)
can_merge(a, prev_part, last_part) ==
    /\ prev_part.name \notin a.claimed
    /\ last_part.name \notin a.claimed

cur_max_rows_to_merge_parts(a) ==
    IF a.only_small
    THEN settings.max_rows_to_merge_parts_second
    ELSE IF toHourInaccurate(now) >= 1 /\ toHourInaccurate(now) <= 5
         THEN settings.max_rows_to_merge_parts * settings.merge_parts_at_night_inc
         ELSE settings.max_rows_to_merge_parts

\* "Кусок достаточно мал или слияние агрессивное" (negated: the part is skipped).
TooLarge(a, part) ==
    /\ part.size * settings.index_granularity > cur_max_rows_to_merge_parts(a)
    /\ ~a.aggressive

\* is_old_month = now_day - now_month >= 1 && now_month > month
is_old_month(month) ==
    LET now_day   == toDayNum(now)
        now_month == toFirstDayNumOfMonth(now_day)
    IN  now_day - now_month >= 1 /\ now_month > month

\* floor(log2(n)) for n >= 1
RECURSIVE FloorLog2(_)
FloorLog2(n) == IF n < 2 THEN 0 ELSE 1 + FloorLog2(n \div 2)

RECURSIVE Pow2(_)
Pow2(k) == IF k = 0 THEN 1 ELSE 2 * Pow2(k - 1)

\* The fraction bits of log2 of a mantissa m in [1, 2), m given in units of
\* 2^-14, by repeated squaring; the result is in units of 2^-10.
RECURSIVE Log2Frac(_, _)
Log2Frac(m, bit) ==
    IF bit = 0 THEN 0
    ELSE LET sq == (m * m) \div 16384
         IN  IF sq >= 32768
             THEN Pow2(bit - 1) + Log2Frac(sq \div 2, bit - 1)
             ELSE Log2Frac(sq, bit - 1)

\* std::log(n) / std::log(2), in thousandths, for n >= 1.
log2_x1000(n) ==
    LET ip == FloorLog2(n)
        m  == IF ip <= 14 THEN n * Pow2(14 - ip) ELSE n \div Pow2(ip - 14)
    IN  ip * 1000 + (Log2Frac(m, 10) * 1000) \div 1024

\* min_len: 3 for young large parts, else 2.
min_len(cur_max, cur_age) ==
    IF /\ cur_max * settings.index_granularity * BYTES_PER_ROW_ESTIMATE > ONE_GIB
       /\ cur_age < SIX_HOURS
    THEN 3 ELSE 2

\* time_ratio_modifier = 0.5 + 9 * age / (30 days + age), in thousandths.
time_ratio_modifier(cur_age) ==
    500 + (9000 * cur_age) \div (THIRTY_DAYS + cur_age)

\* size_ratio_modifier = max(0.25, 2 - 3 * log / (25 + log)), in thousandths.
\* For cur_sum = 0 the source computes log(0) = -inf, then -inf / -inf = NaN,
\* and std::max(0.25, NaN) is 0.25.
size_ratio_modifier(cur_sum) ==
    IF cur_sum * settings.index_granularity = 0
    THEN 250
    ELSE LET log_cur_sum == log2_x1000(cur_sum * settings.index_granularity)
         IN  Max(250, 2000 - (3000 * log_cur_sum) \div (25000 + log_cur_sum))

\* ratio = max(0.5, time_ratio_modifier * size_ratio_modifier * max_size_ratio_to_merge_parts),
\* in thousandths.
ratio(cur_sum, cur_age) ==
    Max(500, (time_ratio_modifier(cur_age) * size_ratio_modifier(cur_sum)
                * settings.max_size_ratio_to_merge_parts) \div 1000)

\* static_cast<double>(cur_max) / (cur_sum - cur_max) < ratio.  A zero
\* denominator gives +inf or NaN in the source, and the comparison is false.
Balanced(cur_max, cur_sum, cur_age) ==
    /\ cur_sum - cur_max > 0
    /\ cur_max * 1000 < ratio(cur_sum, cur_age) * (cur_sum - cur_max)

\* The condition of lines 168-173: the current run is valid.
SegmentIsValid(a, month, cur_len, cur_max, cur_sum, oldest_modification_time) ==
    LET cur_age == now - oldest_modification_time
    IN  /\ cur_len >= min_len(cur_max, cur_age)
        /\ \/ Balanced(cur_max, cur_sum, cur_age)
           \/ (is_old_month(month) /\ a.merge_anything_for_old_months /\ cur_age > FIFTEEN_DAYS)
           \/ a.aggressive

\* available_disk_space > cur_total_size * DISK_USAGE_COEFFICIENT_TO_SELECT
EnoughDiskSpace_orequal(a, cur_total_size) ==
    a.available_disk_space * 10 >= cur_total_size * DISK_USAGE_COEFFICIENT_TO_SELECT_x10

EnoughDiskSpace(a, cur_total_size) ==
    a.available_disk_space * 10 > cur_total_size * DISK_USAGE_COEFFICIENT_TO_SELECT_x10

\* oldest_modification_time = std::max(oldest_modification_time, last_part->modification_time)
NextOldestModificationTime(oldest_modification_time, last_part) ==
    Max(oldest_modification_time, last_part.modification_time)

\* The condition of the inner loop: cur_len < max_parts_to_merge_at_once.
MayExtend_offbyone(cur) == cur.len <= settings.max_parts_to_merge_at_once

MayExtend(cur) == cur.len < settings.max_parts_to_merge_at_once

\* "Кусок правее предыдущего" (negated): last_part->left < cur_id.
Intersects_right(cur, last_part) == last_part.right < cur.id

Intersects(cur, last_part) == last_part.left < cur.id

\* "Кусок разрешено сливать с предыдущим, и в одном правильном месяце" (negated).
NotAllowedOrOtherMonth_unasked(a, cur, prev_part, last_part) ==
    \/ last_part.left_month # last_part.right_month
    \/ last_part.left_month # cur.month

NotAllowedOrOtherMonth(a, cur, prev_part, last_part) ==
    \/ ~can_merge(a, prev_part, last_part)
    \/ last_part.left_month # last_part.right_month
    \/ last_part.left_month # cur.month

\* Lines 141-187: last_part joins the run cur; if the run is then valid and
\* fits the disk (accept), it is the longest valid run so far.
Extended(cur, last_part, oldest, accept) ==
    [ month       |-> cur.month,
      max         |-> Max(cur.max, last_part.size),
      min         |-> Min(cur.min, last_part.size),
      sum         |-> cur.sum + last_part.size,
      total_size  |-> cur.total_size + last_part.size_in_bytes,
      len         |-> cur.len + 1,
      id          |-> last_part.right,
      oldest_modification_time |-> oldest,
      longest_max |-> IF accept THEN Max(cur.max, last_part.size) ELSE cur.longest_max,
      longest_min |-> IF accept THEN Min(cur.min, last_part.size) ELSE cur.longest_min,
      longest_len |-> IF accept THEN cur.len + 1 ELSE cur.longest_len ]

\* Lines 168-176 for the run cur extended by last_part.
Accepts_anydisk(a, cur, last_part, oldest) ==
    SegmentIsValid(a, cur.month, cur.len + 1, Max(cur.max, last_part.size),
                   cur.sum + last_part.size, oldest)

Accepts(a, cur, last_part, oldest) ==
    /\ SegmentIsValid(a, cur.month, cur.len + 1, Max(cur.max, last_part.size),
                      cur.sum + last_part.size, oldest)
    /\ EnoughDiskSpace(a, cur.total_size + last_part.size_in_bytes)

\* The inner loop (lines 111-188), from the run cur ending at position jt of P.
RECURSIVE ExtendRun(_, _, _, _)
ExtendRun(P, a, jt, cur) ==
    IF ~MayExtend(cur) THEN cur
    ELSE IF jt + 1 > Len(P) THEN cur
    ELSE
      LET prev_part == P[jt]
          last_part == P[jt + 1]
      IN
      IF NotAllowedOrOtherMonth(a, cur, prev_part, last_part) THEN cur
      ELSE IF TooLarge(a, last_part) THEN cur
      ELSE IF Intersects(cur, last_part) THEN cur
      ELSE
        LET oldest == NextOldestModificationTime(cur.oldest_modification_time, last_part)
        IN  ExtendRun(P, a, jt + 1,
                      Extended(cur, last_part, oldest, Accepts(a, cur, last_part, oldest)))

\* The longest valid run starting at position it (lines 91-188).
LongestFrom(P, a, it) ==
    LET first_part == P[it]
    IN  ExtendRun(P, a, it,
          [ month       |-> first_part.left_month,
            max         |-> first_part.size,
            min         |-> first_part.size,
            sum         |-> first_part.size,
            total_size  |-> first_part.size_in_bytes,
            len         |-> 1,
            id          |-> first_part.right,
            oldest_modification_time |-> first_part.modification_time,
            longest_max |-> SIZE_NONE,
            longest_min |-> SIZE_NONE,
            longest_len |-> 0 ])

\* max_count_from_left = std::max(0, max_count_from_left - 1)
DecrementFromLeft_bytwo(max_count_from_left) == Max(0, max_count_from_left - 2)

DecrementFromLeft(max_count_from_left) == Max(0, max_count_from_left - 1)

\* std::make_pair(std::make_pair(max, min), -len) < std::make_pair(std::make_pair(min_max, min_min), -max_len)
Better_orequal(cur, st) ==
    \/ cur.longest_max < st.min_max
    \/ /\ cur.longest_max = st.min_max
       /\ \/ cur.longest_min < st.min_min
          \/ /\ cur.longest_min = st.min_min
             /\ -cur.longest_len <= -st.max_len

Better(cur, st) ==
    \/ cur.longest_max < st.min_max
    \/ /\ cur.longest_max = st.min_max
       /\ \/ cur.longest_min < st.min_min
          \/ /\ cur.longest_min = st.min_min
             /\ -cur.longest_len < -st.max_len

\* "Это максимальный по включению валидный отрезок": cur_longest_len > max_count_from_left
IsMaximalByInclusion(cur_longest_len, max_count_from_left) ==
    cur_longest_len > max_count_from_left

\* Lines 190-205: the selection state after the longest valid run cur that
\* starts at position it has been considered.
Considered(st, it, cur) ==
    IF IsMaximalByInclusion(cur.longest_len, DecrementFromLeft(st.max_count_from_left))
    THEN IF ~st.found \/ Better(cur, st)
         THEN [ min_max    |-> cur.longest_max,
                min_min    |-> cur.longest_min,
                max_len    |-> cur.longest_len,
                best_begin |-> it,
                found      |-> TRUE,
                max_count_from_left |-> cur.longest_len ]
         ELSE [st EXCEPT !.max_count_from_left = cur.longest_len]
    ELSE [st EXCEPT !.max_count_from_left = DecrementFromLeft(st.max_count_from_left)]

\* The outer loop (lines 73-206), from position it of P.
RECURSIVE SelectLoop(_, _, _, _)
SelectLoop(P, a, it, st) ==
    IF it > Len(P) THEN st
    ELSE IF \/ TooLarge(a, P[it])
            \/ P[it].left_month # P[it].right_month
         THEN SelectLoop(P, a, it + 1,
                [st EXCEPT !.max_count_from_left = DecrementFromLeft(st.max_count_from_left)])
         ELSE SelectLoop(P, a, it + 1, Considered(st, it, LongestFrom(P, a, it)))

\* The result of selectPartsToMerge on the snapshot P: found, and the parts
\* best_begin .. best_begin + max_len - 1 (lines 208-226).
selectPartsToMerge(P, a) ==
    LET st == SelectLoop(P, a, 1,
                [ min_max    |-> SIZE_NONE,
                  min_min    |-> SIZE_NONE,
                  max_len    |-> 0,
                  best_begin |-> 0,
                  found      |-> FALSE,
                  max_count_from_left |-> 0 ])
    IN  [ found      |-> st.found,
          best_begin |-> st.best_begin,
          parts      |-> IF st.found
                         THEN SubSeq(P, st.best_begin, st.best_begin + st.max_len - 1)
                         ELSE <<>> ]

(***************************************************************************)
(* MergeTreeData::replaceParts: the parts of old_parts leave the set and   *)
(* new_part enters it at its place in the order, in one step.              *)
(***************************************************************************)
PartLess(p, q) ==
    \/ p.left_month < q.left_month
    \/ p.left_month = q.left_month /\ p.left < q.left

RECURSIVE InsertPart(_, _)
InsertPart(P, new_part) ==
    IF P = <<>> THEN <<new_part>>
    ELSE IF PartLess(new_part, Head(P)) THEN <<new_part>> \o P
    ELSE <<Head(P)>> \o InsertPart(Tail(P), new_part)

replaceParts(P, old_parts, new_part) ==
    InsertPart(SelectSeq(P, LAMBDA p : p.name \notin Names(old_parts)), new_part)

(***************************************************************************)
(* mergeParts.                                                             *)
(***************************************************************************)
Modes == {"Ordinary", "Collapsing", "Summing", "Unknown"}

\* The loop of lines 248-253 over parts[i], from i.
RECURSIVE MergeMeta(_, _, _)
MergeMeta(ps, i, acc) ==
    IF i > Len(ps) THEN acc
    ELSE MergeMeta(ps, i + 1,
           [ level      |-> Max(acc.level, ps[i].level),
             left_date  |-> Min(acc.left_date, ps[i].left_date),
             right_date |-> Max(acc.right_date, ps[i].right_date) ])

\* Which input gives new_data_part->left and ->right (lines 245-246).
OutputLeft_back(ps) == ps[Len(ps)].left

OutputLeft(ps)  == ps[1].left

OutputRight_front(ps) == ps[1].right

OutputRight(ps) == ps[Len(ps)].right

\* ++new_data_part->level
OutputLevel(max_level) == max_level + 1

\* new_data_part as of line 258.  size, size_in_bytes and modification_time
\* are set when the output has been written.
NewDataPart(ps) ==
    LET m == MergeMeta(ps, 1, [level |-> 0, left_date |-> UINT16_MAX, right_date |-> 0])
    IN  DataPart(m.left_date, m.right_date, OutputLeft(ps), OutputRight(ps),
                 OutputLevel(m.level), 0, 0, 0)

\* The number of blocks the sources hold: one block per mark
\* (MarkRange(0, parts[i]->size), DEFAULT_MERGE_BLOCK_SIZE rows a block).
RECURSIVE SourceBlocks(_)
SourceBlocks(ps) == IF ps = <<>> THEN 0 ELSE Head(ps).size + SourceBlocks(Tail(ps))

NoPart == [name |-> <<>>]
NoStream == [open |-> FALSE, marks |-> 0, suffix |-> FALSE]
NoSel == [called |-> FALSE]

\* Lines 233-299: the output metadata, the source streams, the merged stream
\* by mode, the output stream, readPrefix and writePrefix.  An unknown mode throws.
mergeParts_begin(w) ==
    /\ pc[w] = "selected"
    /\ mode \in {"Ordinary", "Collapsing", "Summing"}
    /\ new_data_part' = [new_data_part EXCEPT ![w] = NewDataPart(parts[w])]
    /\ src_streams' = [src_streams EXCEPT ![w] = SourceBlocks(parts[w])]
    /\ to' = [to EXCEPT ![w] = [open |-> TRUE, marks |-> 0, suffix |-> FALSE]]
    /\ tmp_parts' = tmp_parts \cup {NewDataPart(parts[w]).name}
    /\ pc' = [pc EXCEPT ![w] = "loop"]
    /\ UNCHANGED <<data_parts, settings, mode, now, canceled, currently_merging, parts, result, sel>>

mergeParts_unknown_mode(w) ==
    /\ pc[w] = "selected"
    /\ mode \notin {"Ordinary", "Collapsing", "Summing"}
    /\ new_data_part' = [new_data_part EXCEPT ![w] = NewDataPart(parts[w])]
    /\ result' = [result EXCEPT ![w] = [kind |-> "exception", what |-> "Unknown mode of operation"]]
    /\ pc' = [pc EXCEPT ![w] = "done"]
    /\ UNCHANGED <<data_parts, settings, mode, now, canceled, currently_merging, parts,
                   src_streams, to, tmp_parts, sel>>

\* Line 302, canceled is set: the loop ends.
mergeParts_loop_canceled_untested(w) ==
    /\ pc[w] = "loop"
    /\ canceled
    /\ pc' = [pc EXCEPT ![w] = "suffix"]
    /\ UNCHANGED <<data_parts, settings, mode, now, canceled, currently_merging, parts,
                   new_data_part, src_streams, to, result, sel, tmp_parts>>

mergeParts_loop_canceled(w) ==
    /\ pc[w] = "loop"
    /\ canceled
    /\ pc' = [pc EXCEPT ![w] = "test"]
    /\ UNCHANGED <<data_parts, settings, mode, now, canceled, currently_merging, parts,
                   new_data_part, src_streams, to, result, sel, tmp_parts>>

\* How many source blocks one read() of merged_stream may consume to give one
\* block: exactly one in Ordinary mode (rows pass through), one or more in
\* Collapsing and Summing mode (rows are combined or cancel out).
ReadSpans(w) ==
    IF mode = "Ordinary" THEN {k \in {1} : src_streams[w] >= 1} ELSE 1..src_streams[w]

\* Lines 302-303, canceled is not set: a block is read and written.
mergeParts_loop_write_unchecked(w) ==
    /\ pc[w] = "loop"
    /\ \E k \in ReadSpans(w) :
         /\ src_streams' = [src_streams EXCEPT ![w] = @ - k]
         /\ to' = [to EXCEPT ![w].marks = @ + 1]
    /\ UNCHANGED <<data_parts, settings, mode, now, canceled, currently_merging, pc, parts,
                   new_data_part, result, sel, tmp_parts>>

mergeParts_loop_write(w) ==
    /\ pc[w] = "loop"
    /\ ~canceled
    /\ \E k \in ReadSpans(w) :
         /\ src_streams' = [src_streams EXCEPT ![w] = @ - k]
         /\ to' = [to EXCEPT ![w].marks = @ + 1]
    /\ UNCHANGED <<data_parts, settings, mode, now, canceled, currently_merging, pc, parts,
                   new_data_part, result, sel, tmp_parts>>

\* Whether read() may return the empty block: the sources are exhausted, or
\* (Collapsing, Summing) what is left of them gives no row.
MayReadEmpty(w) == src_streams[w] = 0 \/ mode # "Ordinary"

\* Line 302, canceled is not set: read() returns the empty block, the loop ends.
mergeParts_loop_end(w) ==
    /\ pc[w] = "loop"
    /\ ~canceled
    /\ MayReadEmpty(w)
    /\ src_streams' = [src_streams EXCEPT ![w] = 0]
    /\ pc' = [pc EXCEPT ![w] = "test"]
    /\ UNCHANGED <<data_parts, settings, mode, now, canceled, currently_merging, parts,
                   new_data_part, to, result, sel, tmp_parts>>

\* Lines 305-309.
mergeParts_test_canceled(w) ==
    /\ pc[w] = "test"
    /\ canceled
    /\ result' = [result EXCEPT ![w] = [kind |-> "returned", name |-> <<>>]]
    /\ pc' = [pc EXCEPT ![w] = "done"]
    /\ UNCHANGED <<data_parts, settings, mode, now, canceled, currently_merging, parts,
                   new_data_part, src_streams, to, sel, tmp_parts>>

mergeParts_test_passed(w) ==
    /\ pc[w] = "test"
    /\ ~canceled
    /\ pc' = [pc EXCEPT ![w] = "suffix"]
    /\ UNCHANGED <<data_parts, settings, mode, now, canceled, currently_merging, parts,
                   new_data_part, src_streams, to, result, sel, tmp_parts>>

\* Lines 311-316: readSuffix, writeSuffix, and no mark in Ordinary mode: throws.
mergeParts_empty_ordinary(w) ==
    /\ pc[w] = "suffix"
    /\ to[w].marks = 0 /\ mode = "Ordinary"
    /\ to' = [to EXCEPT ![w].suffix = TRUE]
    /\ result' = [result EXCEPT ![w] = [kind |-> "exception", what |-> "Empty part after merge"]]
    /\ pc' = [pc EXCEPT ![w] = "done"]
    /\ UNCHANGED <<data_parts, settings, mode, now, canceled, currently_merging, parts,
                   new_data_part, src_streams, sel, tmp_parts>>

\* new_data_part with the fields set at lines 318-319 and by loadIndex.  The
\* source does not show where size_in_bytes of the new part is set; the model
\* gives it the 10 bytes a mark that the initial parts have.
WrittenPart(w) ==
    [new_data_part[w] EXCEPT !.size = to[w].marks,
                             !.size_in_bytes = 10 * to[w].marks,
                             !.modification_time = now]

\* Lines 311-325: readSuffix, writeSuffix, and no mark in another mode: returns "".
mergeParts_empty(w) ==
    /\ pc[w] = "suffix"
    /\ to[w].marks = 0 /\ mode # "Ordinary"
    /\ to' = [to EXCEPT ![w].suffix = TRUE]
    /\ new_data_part' = [new_data_part EXCEPT ![w] = WrittenPart(w)]
    /\ result' = [result EXCEPT ![w] = [kind |-> "returned", name |-> <<>>]]
    /\ pc' = [pc EXCEPT ![w] = "done"]
    /\ UNCHANGED <<data_parts, settings, mode, now, canceled, currently_merging, parts,
                   src_streams, sel, tmp_parts>>

\* The parts mergeParts hands to replaceParts as the ones to replace (line 331).
PartsToReplace_none(w) == <<>>

PartsToReplace_butfirst(w) == Tail(parts[w])

PartsToReplace(w) == parts[w]

\* Whether the output may be published: 0 != to->marksCount() (line 321).
HasMarks_unchecked(w) == TRUE

HasMarks(w) == to[w].marks # 0

\* Lines 311-335: readSuffix, writeSuffix, at least one mark: loadIndex,
\* replaceParts, and the name of the new part is returned.
mergeParts_publish_stale(w) ==
    /\ pc[w] = "suffix"
    /\ HasMarks(w)
    /\ to' = [to EXCEPT ![w].suffix = TRUE]
    /\ new_data_part' = [new_data_part EXCEPT ![w] = WrittenPart(w)]
    /\ data_parts' = replaceParts(sel[w].snapshot, PartsToReplace(w), WrittenPart(w))
    /\ tmp_parts' = tmp_parts \ {new_data_part[w].name}
    /\ result' = [result EXCEPT ![w] = [kind |-> "returned", name |-> new_data_part[w].name]]
    /\ pc' = [pc EXCEPT ![w] = "done"]
    /\ UNCHANGED <<settings, mode, now, canceled, currently_merging, parts, src_streams, sel>>

mergeParts_publish(w) ==
    /\ pc[w] = "suffix"
    /\ HasMarks(w)
    /\ to' = [to EXCEPT ![w].suffix = TRUE]
    /\ new_data_part' = [new_data_part EXCEPT ![w] = WrittenPart(w)]
    /\ data_parts' = replaceParts(data_parts, PartsToReplace(w), WrittenPart(w))
    /\ tmp_parts' = tmp_parts \ {new_data_part[w].name}
    /\ result' = [result EXCEPT ![w] = [kind |-> "returned", name |-> new_data_part[w].name]]
    /\ pc' = [pc EXCEPT ![w] = "done"]
    /\ UNCHANGED <<settings, mode, now, canceled, currently_merging, parts, src_streams, sel>>

(***************************************************************************)
(* estimateDiskSpaceForMerge.                                              *)
(***************************************************************************)
\* res: the sum of size_in_bytes over the parts (lines 340-344).
RECURSIVE TotalSizeInBytes(_)
TotalSizeInBytes(ps) ==
    IF ps = <<>> THEN 0 ELSE Head(ps).size_in_bytes + TotalSizeInBytes(Tail(ps))

\* static_cast<size_t>(res * DISK_USAGE_COEFFICIENT_TO_RESERVE), line 345: the
\* product is a double and the cast truncates it.  The double 1.4 is
\* 1.4 - 0.4 * 2^-52.  When 1.4 * res is no integer the product is far from
\* one and the cast gives the integer part of 1.4 * res.  When 1.4 * res is
\* the integer 7m (res = 5m), the exact product is 7m - m * 2^-51, and it
\* rounds to the double 7m when m * 2^-51 is at most half the spacing of the
\* doubles at 7m (a tie goes to 7m, whose mantissa is even), and to the
\* double below 7m otherwise, which the cast truncates to 7m - 1.
TruncatedProduct(res) ==
    IF res > 0 /\ res % 5 = 0 /\ 4 * (res \div 5) > Pow2(FloorLog2(7 * (res \div 5)))
    THEN 7 * (res \div 5) - 1
    ELSE (res * DISK_USAGE_COEFFICIENT_TO_RESERVE_x10) \div 10

estimateDiskSpaceForMerge(ps) == TruncatedProduct(TotalSizeInBytes(ps))

(***************************************************************************)
(* The callers: a background worker selects a run, claims its parts,       *)
(* merges and releases them; the scheduler cancels.                        *)
(***************************************************************************)
SelectArgs(avails, flags) ==
    [ available_disk_space          : avails,
      merge_anything_for_old_months : flags,
      aggressive                    : flags,
      only_small                    : flags,
      claimed                       : {currently_merging} ]

\* One call of selectPartsToMerge on the current part set, with arguments of A.
\* A run that was found is claimed.  A worker that found nothing calls again
\* only when the part set or the claims have changed.
SelectEnabled(w) ==
    /\ pc[w] = "idle"
    /\ IF sel[w].called
       THEN sel[w].snapshot # data_parts \/ sel[w].args.claimed # currently_merging
       ELSE TRUE

Select(w, A) ==
    /\ SelectEnabled(w)
    /\ \E a \in A : \E r \in {selectPartsToMerge(data_parts, a)} :
             /\ sel' = [sel EXCEPT ![w] =
                          [ called |-> TRUE, args |-> a, snapshot |-> data_parts,
                            found |-> r.found, best_begin |-> r.best_begin, parts |-> r.parts ]]
             /\ parts' = [parts EXCEPT ![w] = r.parts]
             /\ pc' = [pc EXCEPT ![w] = IF r.found THEN "selected" ELSE "idle"]
             /\ currently_merging' = currently_merging \cup Names(r.parts)
    /\ UNCHANGED <<data_parts, settings, mode, now, canceled, new_data_part, src_streams,
                   to, result, tmp_parts>>

\* mergeParts has returned or thrown: the worker releases its parts.
Finish(w) ==
    /\ pc[w] = "done"
    /\ pc' = [pc EXCEPT ![w] = "idle"]
    /\ currently_merging' = currently_merging \ Names(parts[w])
    /\ parts' = [parts EXCEPT ![w] = <<>>]
    /\ new_data_part' = [new_data_part EXCEPT ![w] = NoPart]
    /\ to' = [to EXCEPT ![w] = NoStream]
    /\ src_streams' = [src_streams EXCEPT ![w] = 0]
    /\ result' = [result EXCEPT ![w] = [kind |-> "none"]]
    /\ sel' = [sel EXCEPT ![w] = NoSel]
    /\ UNCHANGED <<data_parts, settings, mode, now, canceled, tmp_parts>>

\* cancel(): the flag is set.
cancel ==
    /\ ~canceled
    /\ canceled' = TRUE
    /\ UNCHANGED <<data_parts, settings, mode, now, currently_merging, pc, parts,
                   new_data_part, src_streams, to, result, sel, tmp_parts>>

(***************************************************************************)
(* Initial states.                                                         *)
(***************************************************************************)
SettingsOf(max_parts) ==
    [ max_parts_to_merge_at_once     |-> max_parts,
      max_rows_to_merge_parts        |-> 1000000,
      max_rows_to_merge_parts_second |-> 50000,
      merge_parts_at_night_inc       |-> 10,
      max_size_ratio_to_merge_parts  |-> 5,
      index_granularity              |-> 8192 ]

\* The i-th part of an initial part set: `size` marks of 10 bytes, modified
\* `age` hours ago, in the month beginning on day `month`.  Its block numbers
\* follow its position; shape "overlap" makes it begin before the end of its
\* predecessor, "touch" at the end of its predecessor, and "span" makes it
\* reach into the next month.
InitialPart(i, size, age, month, shape, time) ==
    LET left_date  == month + 12 - 2 * i
        right_date == IF shape = "span" THEN left_date + 31 ELSE left_date + 1
        left       == CASE shape = "overlap" -> 10 * (i - 1) + 4
                        [] shape = "touch"   -> 10 * (i - 1) + 5
                        [] OTHER             -> 10 * i
    IN  DataPart(left_date, right_date, left, 10 * i + 5, i % 2, size, 10 * size, time - age)

\* What may be wrong with a part set of n parts: nothing, or one part spans
\* two months, overlaps or touches its predecessor, or is claimed by a merge.
Shapes(n) ==
    {<<"plain", 0>>}
      \cup {<<s, k>> : s \in {"span", "claimed"}, k \in 1..n}
      \cup {<<s, k>> : s \in {"overlap", "touch"}, k \in 2..n}

ShapeOf(sh, i) == IF sh[2] = i THEN sh[1] ELSE "plain"

\* The parts 1..b are in March 1970, the others in April 1970.
MonthOf(b, i) == IF i <= b THEN 59 ELSE 90

InitWorkers ==
    /\ canceled = FALSE
    /\ pc = [w \in Workers |-> "idle"]
    /\ parts = [w \in Workers |-> <<>>]
    /\ new_data_part = [w \in Workers |-> NoPart]
    /\ src_streams = [w \in Workers |-> 0]
    /\ to = [w \in Workers |-> NoStream]
    /\ result = [w \in Workers |-> [kind |-> "none"]]
    /\ sel = [w \in Workers |-> NoSel]
    /\ tmp_parts = {}

\* <<data.mode, max_parts_to_merge_at_once>> of the merging workers.
MergeEnvs ==
    { <<"Ordinary", 2>>, <<"Ordinary", 3>>, <<"Collapsing", 2>>, <<"Summing", 3>>,
      <<"Unknown", 2>> }

\* Part sets for the merging workers: parts of one mark or none, so that the
\* block loop is short; the first two parts may be empty.  The parts follow
\* each other in the order of the set and do not overlap; the months change
\* after part b, or part t begins at the block number its predecessor ends at.
Init ==
    /\ now = 95 * 24 + 12
    /\ \E env \in MergeEnvs :
         /\ mode = env[1]
         /\ settings = SettingsOf(env[2])
    /\ \E n \in 1..MaxParts : \E sizes \in [1..n -> {0, 1}] :
       \E lay \in {<<0, 0>>, <<2, 0>>, <<0, 2>>} :
         /\ \A i \in 3..n : sizes[i] = 1
         /\ lay[1] <= n - 1
         /\ lay[2] <= n
         /\ data_parts = [i \in 1..n |->
                InitialPart(i, sizes[i], 480, MonthOf(lay[1], i), ShapeOf(<<"touch", lay[2]>>, i), now)]
    /\ currently_merging = {}
    /\ InitWorkers

\* Snapshots for one selectPartsToMerge call.  A part is small and old,
\* middle-sized and young, or large (more than 1 GiB by the estimate of
\* line 153) and young or old: <<marks, age in hours>>.
SnapshotKinds == {<<1, 480>>, <<10, 1>>, <<1000, 1>>, <<1000, 480>>}

\* Where the months change and what is wrong: the boundary moves through a
\* part set with nothing wrong, the defects are tried within one month.
SnapshotLayouts(n) ==
    {<<b, <<"plain", 0>>>> : b \in 0..n} \cup {<<0, sh>> : sh \in Shapes(n) \ {<<"plain", 0>>}}

\* <<now, max_parts_to_merge_at_once>>: now is 1970-04-06 03:00 (night, the
\* month began 5 days ago) or 1970-04-01 12:00 (day, the first day of the month).
SnapshotEnvs ==
    { <<95 * 24 + 3, MaxSnapshot>>, <<90 * 24 + 12, MaxSnapshot>>,
      <<95 * 24 + 3, 2>>, <<90 * 24 + 12, 1>> }

InitSel ==
    /\ \E env \in SnapshotEnvs :
         /\ now = env[1]
         /\ settings = SettingsOf(env[2])
    /\ mode = "Ordinary"
    /\ \E n \in 1..MaxSnapshot :
       \E kinds \in [1..n -> SnapshotKinds] : \E lay \in SnapshotLayouts(n) :
         /\ data_parts = [i \in 1..n |->
                InitialPart(i, kinds[i][1], kinds[i][2], MonthOf(lay[1], i),
                            ShapeOf(lay[2], i), now)]
         /\ currently_merging =
                IF lay[2][1] = "claimed" THEN {data_parts[lay[2][2]].name} ELSE {}
    /\ InitWorkers

(***************************************************************************)
(* Specifications.                                                         *)
(***************************************************************************)
MergeArgs ==
    [ available_disk_space          : {1000000},
      merge_anything_for_old_months : {FALSE},
      aggressive                    : BOOLEAN,
      only_small                    : {FALSE},
      claimed                       : {currently_merging} ]

SelArgs == SelectArgs({32, 400, 1000000}, BOOLEAN)

SelectToMerge(w) == Select(w, MergeArgs)

SelectOnce == Select(1, SelArgs)

Next ==
    \/ \E w \in Workers :
         \/ SelectToMerge(w)
         \/ mergeParts_begin(w)
         \/ mergeParts_unknown_mode(w)
         \/ mergeParts_loop_canceled(w)
         \/ mergeParts_loop_write(w)
         \/ mergeParts_loop_end(w)
         \/ mergeParts_test_canceled(w)
         \/ mergeParts_test_passed(w)
         \/ mergeParts_empty_ordinary(w)
         \/ mergeParts_empty(w)
         \/ mergeParts_publish(w)
         \/ Finish(w)
    \/ cancel

Spec == Init /\ [][Next]_vars

NextSel == SelectOnce

SpecSel == InitSel /\ [][NextSel]_vars

(***************************************************************************)
(* Properties of selectPartsToMerge, checked under SpecSel on the call of  *)
(* worker 1: P is the snapshot, a the arguments, R the run returned.       *)
(***************************************************************************)
Selected == sel[1].called /\ sel[1].found

RECURSIVE SumOf(_, _)
SumOf(ps, field) == IF ps = <<>> THEN 0 ELSE Head(ps)[field] + SumOf(Tail(ps), field)

MaxOf(ps, field) == CHOOSE v \in {ps[k][field] : k \in 1..Len(ps)} :
                        \A k \in 1..Len(ps) : ps[k][field] <= v
MinOf(ps, field) == CHOOSE v \in {ps[k][field] : k \in 1..Len(ps)} :
                        \A k \in 1..Len(ps) : ps[k][field] >= v

\* C5: every run returned by selectPartsToMerge is a contiguous sub-sequence
\* of the snapshot, in snapshot order; all its parts are in one month and none
\* spans two months; adjacent parts satisfy prev.right <= next.left.
C5_RunShape ==
    Selected =>
      LET P == sel[1].snapshot
          R == sel[1].parts
      IN  /\ \E i \in 1..Len(P) : i + Len(R) - 1 <= Len(P) /\ R = SubSeq(P, i, i + Len(R) - 1)
          /\ \A k \in 1..Len(R) : R[k].left_month = R[k].right_month
          /\ \A k \in 1..Len(R) : R[k].left_month = R[1].left_month
          /\ \A k \in 1..(Len(R) - 1) : R[k].right <= R[k + 1].left

\* A run was selected from a snapshot in which a part overlaps its predecessor.
C5_Witness ==
    /\ Selected
    /\ \E k \in 2..Len(sel[1].snapshot) :
         sel[1].snapshot[k].left < sel[1].snapshot[k - 1].right

\* C6: a run returned has at least 2 and at most max_parts_to_merge_at_once
\* parts; a snapshot of one part, or max_parts_to_merge_at_once <= 1, gives
\* no selection.
C6_RunLength ==
    sel[1].called =>
      /\ sel[1].found =>
           /\ Len(sel[1].parts) >= 2
           /\ Len(sel[1].parts) <= settings.max_parts_to_merge_at_once
      /\ (Len(sel[1].snapshot) = 1 \/ settings.max_parts_to_merge_at_once <= 1)
           => ~sel[1].found

\* A run as long as max_parts_to_merge_at_once allows, from a longer snapshot
\* in which a longer run is not otherwise excluded (one month, aggressive).
C6_Witness ==
    /\ Selected
    /\ Len(sel[1].parts) = settings.max_parts_to_merge_at_once
    /\ Len(sel[1].snapshot) > Len(sel[1].parts)
    /\ sel[1].args.aggressive
    /\ \A k \in 1..Len(sel[1].snapshot) :
         sel[1].snapshot[k].left_month = sel[1].snapshot[1].right_month

\* C7: every run returned satisfies sum(size_in_bytes) * 1.6 < available_disk_space,
\* whatever the flags.
C7_DiskHeadroom ==
    Selected =>
      SumOf(sel[1].parts, "size_in_bytes") * 16 < sel[1].args.available_disk_space * 10

\* A run selected with all three flags set and little room on the disk.
C7_Witness ==
    /\ Selected
    /\ sel[1].args.aggressive
    /\ sel[1].args.merge_anything_for_old_months
    /\ sel[1].args.only_small
    /\ sel[1].args.available_disk_space <= 2 * SumOf(sel[1].parts, "size_in_bytes")

\* The run of len parts from position i of P is valid: every part is eligible
\* (lines 80-89, 124-139), the run passes lines 168-173 and fits the disk
\* (line 176), and it is no longer than max_parts_to_merge_at_once.
RECURSIVE RunModificationTime(_)
RunModificationTime(ps) ==
    IF Len(ps) = 1 THEN ps[1].modification_time
    ELSE NextOldestModificationTime(RunModificationTime(SubSeq(ps, 1, Len(ps) - 1)), ps[Len(ps)])

ValidRun(P, a, i, len) ==
    /\ len >= 2
    /\ len <= settings.max_parts_to_merge_at_once
    /\ i + len - 1 <= Len(P)
    /\ LET ps == SubSeq(P, i, i + len - 1)
       IN  /\ \A k \in 1..len : ~TooLarge(a, ps[k])
           /\ \A k \in 1..len : ps[k].left_month = ps[k].right_month
           /\ \A k \in 1..len : ps[k].left_month = ps[1].left_month
           /\ \A k \in 2..len : can_merge(a, ps[k - 1], ps[k])
           /\ \A k \in 2..len : ps[k].left >= ps[k - 1].right
           /\ SegmentIsValid(a, ps[1].left_month, len, MaxOf(ps, "size"),
                             SumOf(ps, "size"), RunModificationTime(ps))
           /\ EnoughDiskSpace(a, SumOf(ps, "size_in_bytes"))

\* The run of len parts from position i of P is valid by the rule as it is
\* specified: the age of a run is that of its oldest part, now minus the
\* least modification time; a run is valid when it is balanced and has
\* min_len parts, or the selection is aggressive, or the old-month exemption
\* applies; eligibility and disk headroom as above.
SpecifiedValidRun(P, a, i, len) ==
    /\ len >= 2
    /\ len <= settings.max_parts_to_merge_at_once
    /\ i + len - 1 <= Len(P)
    /\ LET ps         == SubSeq(P, i, i + len - 1)
           oldest_age == now - MinOf(ps, "modification_time")
           max_size   == MaxOf(ps, "size")
       IN  /\ \A k \in 1..len : ~TooLarge(a, ps[k])
           /\ \A k \in 1..len : ps[k].left_month = ps[k].right_month
           /\ \A k \in 1..len : ps[k].left_month = ps[1].left_month
           /\ \A k \in 2..len : can_merge(a, ps[k - 1], ps[k])
           /\ \A k \in 2..len : ps[k].left >= ps[k - 1].right
           /\ \/ /\ Balanced(max_size, SumOf(ps, "size"), oldest_age)
                 /\ len >= min_len(max_size, oldest_age)
              \/ a.aggressive
              \/ /\ a.merge_anything_for_old_months
                 /\ is_old_month(ps[1].left_month)
                 /\ oldest_age > FIFTEEN_DAYS
           /\ EnoughDiskSpace(a, SumOf(ps, "size_in_bytes"))

\* C8: no valid run of the snapshot strictly contains the run returned,
\* neither one that starts at the same position and reaches further right
\* nor one that starts further left and covers it.
C8_Maximal ==
    Selected =>
      LET P  == sel[1].snapshot
          i0 == sel[1].best_begin
          n  == Len(sel[1].parts)
      IN  \A i \in 1..i0 : \A len \in (n + 1)..Len(P) :
            i + len >= i0 + n => ~SpecifiedValidRun(P, sel[1].args, i, len)

\* C8 with the validity the source computes (the age of a run is that of its
\* most recently modified part): the run returned is valid and no valid run
\* strictly contains it.
C8_MaximalAsComputed ==
    Selected =>
      LET P  == sel[1].snapshot
          i0 == sel[1].best_begin
          n  == Len(sel[1].parts)
      IN  /\ ValidRun(P, sel[1].args, i0, n)
          /\ \A i \in 1..i0 : \A len \in (n + 1)..Len(P) :
               i + len >= i0 + n => ~ValidRun(P, sel[1].args, i, len)

\* The run returned starts at the second part of a snapshot of three parts,
\* and a valid run that starts at the first part overlaps it without covering
\* it (max_count_from_left was 1 when the run was considered).
C8_AsComputedWitness ==
    /\ Selected
    /\ Len(sel[1].snapshot) = 3
    /\ sel[1].best_begin = 2
    /\ ValidRun(sel[1].snapshot, sel[1].args, 1, 2)

(***************************************************************************)
(* Properties of mergeParts, checked under Spec.                           *)
(***************************************************************************)
InMerge(w) == pc[w] \in {"selected", "loop", "test", "suffix"}

Published(w) == pc[w] = "done" /\ result[w].kind = "returned" /\ result[w].name # <<>>

NotPublished(w) == pc[w] = "done" /\ ~(result[w].kind = "returned" /\ result[w].name # <<>>)

\* C1: the part set changes only by the one replaceParts call of a mergeParts
\* whose merged stream was read to exhaustion, that passed the cancellation
\* test and whose output has at least one mark; when mergeParts ends in any
\* other way (cancelled, no mark, exception), the part set is as it was:
\* such a step changes nothing, and the parts of the run are all still there.
C1_OnlyPublishChangesParts ==
    /\ [][ data_parts' # data_parts =>
             \E w \in Workers :
               /\ pc[w] = "suffix" /\ pc'[w] = "done"
               /\ src_streams[w] = 0
               /\ to[w].marks >= 1
               /\ result'[w] = [kind |-> "returned", name |-> new_data_part[w].name]
               /\ data_parts' = replaceParts(data_parts, parts[w], new_data_part'[w]) ]_vars
    /\ [][ \A w \in Workers :
             (pc[w] # "done" /\ pc'[w] = "done" /\ NotPublished(w)')
               => data_parts' = data_parts ]_vars
    /\ [](\A w \in Workers :
             NotPublished(w) =>
               /\ Names(parts[w]) \subseteq Names(data_parts)
               /\ new_data_part[w].name \notin Names(data_parts))

\* A merge has published its output while another one has ended cancelled,
\* its parts still in the part set.
C1_Witness ==
    \E w, v \in Workers :
      /\ Published(w)
      /\ NotPublished(v) /\ result[v].kind = "returned" /\ to[v].marks >= 1
      /\ Names(parts[v]) \subseteq Names(data_parts)

\* C2: a successful mergeParts takes the part set in one step from holding
\* all its inputs and not the output to holding the output and none of the
\* inputs, everything else kept; at every moment of the merge before that
\* step the set holds all inputs and not the output.  What a reader may see
\* is one of these part sets.
C2_AtomicSwap ==
    /\ [][ \A w \in Workers :
             (pc[w] # "done" /\ Published(w)') =>
               /\ Names(parts[w]) \subseteq Names(data_parts)
               /\ new_data_part[w].name \notin Names(data_parts)
               /\ Names(data_parts') =
                    (Names(data_parts) \ Names(parts[w])) \cup {new_data_part'[w].name}
               /\ Len(data_parts') = Len(data_parts) - Len(parts[w]) + 1 ]_vars
    /\ [](\A w \in Workers :
             InMerge(w) =>
               /\ Names(parts[w]) \subseteq Names(data_parts)
               /\ pc[w] # "selected" => new_data_part[w].name \notin Names(data_parts))

\* A merge of three parts has published: the part set holds its output and
\* none of its inputs.
C2_Witness ==
    \E w \in Workers :
      /\ Published(w)
      /\ Len(parts[w]) = 3
      /\ Names(parts[w]) \cap Names(data_parts) = {}
      /\ new_data_part[w].name \in Names(data_parts)

\* C3 as claimed: if canceled is set at any moment before a mergeParts that
\* has reached its block loop completes, it returns the empty name and the
\* part set is not touched, also when the flag was set after the last block
\* was read and after the test that follows the loop.
C3_CancelAnyTime ==
    [][ \A w \in Workers :
          (canceled /\ pc[w] \in {"loop", "test", "suffix"} /\ pc'[w] = "done")
            => /\ result'[w] = [kind |-> "returned", name |-> <<>>]
               /\ data_parts' = data_parts ]_vars

\* C3 amended: if canceled is set when the block loop tests it (line 302) or
\* when the test after the loop reads it (line 305), no further block is
\* written, mergeParts returns the empty name and the part set is not
\* touched; the flag, once set, stays set.
C3_CancelObserved ==
    /\ [][ \A w \in Workers :
             (canceled /\ pc[w] = "loop" /\ pc'[w] # "loop")
               => pc'[w] = "test" /\ to'[w] = to[w] /\ data_parts' = data_parts ]_vars
    /\ [][ \A w \in Workers :
             (canceled /\ pc[w] = "loop") => to'[w] = to[w] ]_vars
    /\ [][ \A w \in Workers :
             (canceled /\ pc[w] = "test" /\ pc'[w] # "test")
               => /\ pc'[w] = "done"
                  /\ result'[w] = [kind |-> "returned", name |-> <<>>]
                  /\ to'[w] = to[w]
                  /\ data_parts' = data_parts ]_vars
    /\ [][ canceled => canceled' ]_vars

\* A merge was cancelled after it had written a block: it has returned the
\* empty name, and its parts are in the part set.
C3_Witness ==
    \E w \in Workers :
      /\ canceled
      /\ pc[w] = "done"
      /\ result[w] = [kind |-> "returned", name |-> <<>>]
      /\ to[w].marks >= 1 /\ ~to[w].suffix
      /\ Names(parts[w]) \subseteq Names(data_parts)

\* C4: when mergeParts has ended without publishing (cancelled, no mark in a
\* mode other than Ordinary, exception), the output part it wrote is gone.
C4_OutputDiscarded ==
    \A w \in Workers :
      (NotPublished(w) /\ to[w].open) => new_data_part[w].name \notin tmp_parts

\* C9: the part mergeParts produces has the left of its first input and the
\* right of its last, level 1 + the greatest level of the inputs, the date
\* range from the least left_date to the greatest right_date of the inputs,
\* and the month of the inputs when they are all in one month.
C9_OutputMetadata ==
    \A w \in Workers :
      pc[w] \in {"loop", "test", "suffix", "done"} =>
        LET ps == parts[w]
            o  == new_data_part[w]
        IN  /\ o.left = ps[1].left
            /\ o.right = ps[Len(ps)].right
            /\ o.level = 1 + MaxOf(ps, "level")
            /\ o.left_date = MinOf(ps, "left_date")
            /\ o.right_date = MaxOf(ps, "right_date")
            /\ \A m \in {ps[1].left_month} :
                 (\A k \in 1..Len(ps) : ps[k].left_month = m /\ ps[k].right_month = m)
                   => o.left_month = m /\ o.right_month = m

\* A published merge of several parts of different levels, of which neither
\* the first has the least left_date nor the last the greatest right_date.
C9_Witness ==
    \E w \in Workers :
      /\ Published(w)
      /\ new_data_part[w].name \in Names(data_parts)
      /\ \E j, k \in 1..Len(parts[w]) : parts[w][j].level # parts[w][k].level
      /\ parts[w][1].left_date # MinOf(parts[w], "left_date")
      /\ parts[w][Len(parts[w])].right_date # MaxOf(parts[w], "right_date")

\* C10: when a merge that passed the cancellation test ends with an output of
\* no mark, mergeParts throws "Empty part after merge" in Ordinary mode and
\* returns the empty name in the other modes; the part set is not changed and
\* holds all the inputs.
C10_EmptyOutput ==
    [][ \A w \in Workers :
          (pc[w] = "suffix" /\ to[w].marks = 0 /\ pc'[w] # "suffix") =>
            /\ pc'[w] = "done"
            /\ data_parts' = data_parts
            /\ Names(parts[w]) \subseteq Names(data_parts')
            /\ result'[w] = IF mode = "Ordinary"
                            THEN [kind |-> "exception", what |-> "Empty part after merge"]
                            ELSE [kind |-> "returned", name |-> <<>>] ]_vars

\* An uncancelled Ordinary merge of empty parts has thrown, and an
\* uncancelled merge in another mode would return the empty name likewise:
\* the merge ended with no mark written, after writeSuffix.
C10_Witness ==
    \E w \in Workers :
      /\ ~canceled
      /\ pc[w] = "done"
      /\ to[w].suffix /\ to[w].marks = 0
      /\ Len(parts[w]) >= 2
      /\ Names(parts[w]) \subseteq Names(data_parts)


(***************************************************************************)
(* estimateDiskSpaceForMerge on a run: the run is in parts[1], the value   *)
(* returned in result[1].                                                  *)
(***************************************************************************)
\* Greatest size_in_bytes of a part of the runs given to estimateDiskSpaceForMerge.
MaxBytes == 45

\* The i-th part of such a run: one mark, of the given number of bytes.
EstimatedPart(i, bytes) ==
    DataPart(100 - 2 * i, 101 - 2 * i, 10 * i, 10 * i + 5, 0, 1, bytes, 0)

InitEst ==
    /\ now = 95 * 24 + 12
    /\ settings = SettingsOf(2)
    /\ mode = "Ordinary"
    /\ data_parts = <<>>
    /\ currently_merging = {}
    /\ canceled = FALSE
    /\ pc = [w \in Workers |-> "idle"]
    /\ \E n \in 1..2 : \E bytes \in [1..n -> 0..MaxBytes] :
         parts = [w \in Workers |->
                    IF w = 1 THEN [i \in 1..n |-> EstimatedPart(i, bytes[i])] ELSE <<>>]
    /\ new_data_part = [w \in Workers |-> NoPart]
    /\ src_streams = [w \in Workers |-> 0]
    /\ to = [w \in Workers |-> NoStream]
    /\ result = [w \in Workers |-> [kind |-> "none"]]
    /\ sel = [w \in Workers |-> NoSel]
    /\ tmp_parts = {}

\* One call of estimateDiskSpaceForMerge(parts).
Estimate(w) ==
    /\ pc[w] = "idle"
    /\ parts[w] # <<>>
    /\ result[w].kind = "none"
    /\ result' = [result EXCEPT ![w] =
                    [kind |-> "estimate", bytes |-> estimateDiskSpaceForMerge(parts[w])]]
    /\ UNCHANGED <<data_parts, settings, mode, now, canceled, currently_merging, pc, parts,
                   new_data_part, src_streams, to, sel, tmp_parts>>

NextEst == Estimate(1)

SpecEst == InitEst /\ [][NextEst]_vars

(***************************************************************************)
(* Properties of estimateDiskSpaceForMerge, checked under SpecEst.         *)
(***************************************************************************)
Estimated == result[1].kind = "estimate"

\* C11: estimateDiskSpaceForMerge returns the ceiling of 1.4 times the sum
\* of size_in_bytes of the run (the least integer v with 10 v >= 14 sum),
\* and this value is at most 1.6 times the sum.
C11_CeilingEstimate ==
    Estimated =>
      LET sum == SumOf(parts[1], "size_in_bytes")
          v   == result[1].bytes
      IN  /\ 10 * v >= 14 * sum
          /\ 10 * (v - 1) < 14 * sum
          /\ 10 * v <= 16 * sum

\* What the source computes: the value is the integer part of 1.4 times the
\* sum, or one less, and at most 1.6 times the sum.
C11_TruncatedEstimate ==
    Estimated =>
      LET sum == SumOf(parts[1], "size_in_bytes")
          v   == result[1].bytes
      IN  /\ 10 * v <= 14 * sum
          /\ 10 * (v + 2) > 14 * sum
          /\ 10 * v <= 16 * sum

\* A run of two parts for which 1.4 times the sum is no integer.
C11_TruncatedWitness ==
    /\ Estimated
    /\ Len(parts[1]) = 2
    /\ (14 * SumOf(parts[1], "size_in_bytes")) % 10 # 0


(***************************************************************************)
(* Properties of concurrent merges, checked under Spec.                    *)
(***************************************************************************)
\* The worker holds a run: from its selection to the release of its parts.
InFlight(w) == pc[w] \in {"selected", "loop", "test", "suffix", "done"}

DisjointRuns(n) ==
    { rr \in ((1..n) \X (1..n)) \X ((1..n) \X (1..n)) :
        /\ rr[1][1] < rr[1][2]
        /\ rr[1][2] < rr[2][1]
        /\ rr[2][1] < rr[2][2] }

\* The selection record of a worker that was given the run ps of the part set P.
GivenRun(P, first, ps) ==
    [ called |-> TRUE,
      args |-> [ available_disk_space |-> 1000000, merge_anything_for_old_months |-> FALSE,
                 aggressive |-> TRUE, only_small |-> FALSE, claimed |-> {} ],
      snapshot |-> P, found |-> TRUE, best_begin |-> first, parts |-> ps ]

RunOf(P, rr, w) ==
    IF w \in {1, 2} THEN SubSeq(P, rr[w][1], rr[w][2]) ELSE <<>>

InitPair ==
    /\ now = 95 * 24 + 12
    /\ mode \in Modes
    /\ settings = SettingsOf(3)
    /\ canceled = FALSE
    /\ \E n \in 4..(MaxParts + 1) : \E sizes \in [1..n -> {0, 1}] : \E rr \in DisjointRuns(n) :
         /\ \A i \in 3..n : sizes[i] = 1
         /\ data_parts = [i \in 1..n |-> InitialPart(i, sizes[i], 480, 90, "plain", now)]
         /\ parts = [w \in Workers |-> RunOf(data_parts, rr, w)]
         /\ sel = [w \in Workers |->
                     IF w \in {1, 2}
                     THEN GivenRun(data_parts, rr[w][1], RunOf(data_parts, rr, w))
                     ELSE NoSel]
    /\ pc = [w \in Workers |-> IF w \in {1, 2} THEN "selected" ELSE "idle"]
    /\ currently_merging = Names(parts[1]) \cup Names(parts[2])
    /\ new_data_part = [w \in Workers |-> NoPart]
    /\ src_streams = [w \in Workers |-> 0]
    /\ to = [w \in Workers |-> NoStream]
    /\ result = [w \in Workers |-> [kind |-> "none"]]
    /\ tmp_parts = {}

\* A step of the mergeParts of worker w.
MergeStep(w) ==
    \/ mergeParts_begin(w)
    \/ mergeParts_unknown_mode(w)
    \/ mergeParts_loop_canceled(w)
    \/ mergeParts_loop_write(w)
    \/ mergeParts_loop_end(w)
    \/ mergeParts_test_canceled(w)
    \/ mergeParts_test_passed(w)
    \/ mergeParts_empty_ordinary(w)
    \/ mergeParts_empty(w)
    \/ mergeParts_publish(w)

NextPair ==
    \/ \E w \in Workers : MergeStep(w)
    \/ cancel

\* Each merge thread keeps running: a mergeParts that can take a step takes it.
SpecPair ==
    InitPair /\ [][NextPair]_vars /\ \A w \in Workers : WF_vars(MergeStep(w))

\* What mergeParts gives on the run ps when it runs alone from the part set P
\* and publishes new_part.
MergedAlone(P, ps, new_part) == replaceParts(P, ps, new_part)

\* C13: two mergeParts on disjoint runs of one part set both come to their
\* end under every interleaving; an uncancelled Ordinary merge of a run that
\* holds rows publishes whatever the other one does; when both have
\* published, the part set holds both outputs and no input of either, and it
\* is the part set that the two merges give one after the other, in either
\* order.
C13_IndependentMerges ==
    /\ <>(pc[1] = "done" /\ pc[2] = "done")
    /\ [](\A w \in {1, 2} :
            (pc[w] = "done" /\ ~canceled /\ mode = "Ordinary" /\ SourceBlocks(parts[w]) >= 1)
              => Published(w))
    /\ [](( Published(1) /\ Published(2)) =>
            LET P0 == sel[1].snapshot
            IN  /\ data_parts = MergedAlone(MergedAlone(P0, parts[1], new_data_part[1]),
                                            parts[2], new_data_part[2])
                /\ data_parts = MergedAlone(MergedAlone(P0, parts[2], new_data_part[2]),
                                            parts[1], new_data_part[1])
                /\ {new_data_part[1].name, new_data_part[2].name} \subseteq Names(data_parts)
                /\ Names(data_parts) \cap (Names(parts[1]) \cup Names(parts[2])) = {}
                /\ Len(data_parts) = Len(P0) - Len(parts[1]) - Len(parts[2]) + 2)

\* Both merges have published, from a part set that holds a part of neither
\* run: the part set is now the two outputs and that part.
C13_Witness ==
    /\ Published(1) /\ Published(2)
    /\ Len(parts[1]) + Len(parts[2]) < Len(sel[1].snapshot)
    /\ Len(data_parts) = 3
    /\ \E k \in 1..3 : data_parts[k].name \in Names(sel[1].snapshot)


(***************************************************************************)
(* Scenarios of selectPartsToMerge, checked under SpecSel.                 *)
(***************************************************************************)
\* The snapshot of the call is three parts of 10 marks in one month, and
\* available_disk_space is less than 1.6 times their total size_in_bytes.
ThreeEqualPartsShortOfDisk ==
    /\ sel[1].called
    /\ Len(sel[1].snapshot) = 3
    /\ \A k \in 1..3 :
         /\ sel[1].snapshot[k].size = 10
         /\ sel[1].snapshot[k].left_month = sel[1].snapshot[1].left_month
         /\ sel[1].snapshot[k].right_month = sel[1].snapshot[1].left_month
    /\ sel[1].args.available_disk_space * 10
         < SumOf(sel[1].snapshot, "size_in_bytes") * DISK_USAGE_COEFFICIENT_TO_SELECT_x10

\* C14 as claimed: on three parts of 10 marks in one month, with
\* available_disk_space below 1.6 times their total size, selectPartsToMerge
\* selects nothing.
C14_NoSelection ==
    ThreeEqualPartsShortOfDisk => ~sel[1].found

\* C14 amended: on such a snapshot the run of three parts is never selected;
\* a run of two adjacent parts is selected exactly when one is valid and
\* available_disk_space exceeds 1.6 times its size_in_bytes (the first such
\* pair is returned); nothing is selected when available_disk_space is at
\* most 1.6 times the size of two of the parts.
C14_PairSelected ==
    ThreeEqualPartsShortOfDisk =>
      LET P == sel[1].snapshot
          a == sel[1].args
      IN  /\ sel[1].found <=> \E i \in 1..2 : ValidRun(P, a, i, 2)
          /\ sel[1].found =>
               /\ Len(sel[1].parts) = 2
               /\ SumOf(sel[1].parts, "size_in_bytes") * 16 < a.available_disk_space * 10
               /\ \A i \in 1..2 : ValidRun(P, a, i, 2) => sel[1].best_begin <= i
          /\ (a.available_disk_space * 10 <= (P[1].size_in_bytes + P[2].size_in_bytes) * 16)
               => ~sel[1].found

\* Three such parts, available_disk_space between 1.6 times the size of two
\* and of three of them: the first two parts are selected.
C14_Witness ==
    /\ ThreeEqualPartsShortOfDisk
    /\ sel[1].found
    /\ sel[1].best_begin = 1
    /\ settings.max_parts_to_merge_at_once = 3
    /\ ~sel[1].args.aggressive


\* The run of len parts from position i of P is one that may be merged when
\* the selection is aggressive: at least two and at most
\* max_parts_to_merge_at_once adjacent parts of one month, none spanning two
\* months, accepted by can_merge pair by pair, none beginning before the end
\* of its predecessor.
AdjacentRun(P, a, i, len) ==
    /\ len >= 2
    /\ len <= settings.max_parts_to_merge_at_once
    /\ i + len - 1 <= Len(P)
    /\ LET ps == SubSeq(P, i, i + len - 1)
       IN  /\ \A k \in 1..len : ps[k].left_month = ps[k].right_month
           /\ \A k \in 1..len : ps[k].left_month = ps[1].left_month
           /\ \A k \in 2..len : can_merge(a, ps[k - 1], ps[k])
           /\ \A k \in 2..len : ps[k].left >= ps[k - 1].right

\* C15 as claimed: when aggressive is set, every such run that has the disk
\* headroom is valid, whatever its balance and whatever min_len; so a
\* selection is made whenever the snapshot holds one.
C15_AggressiveAnyRun ==
    (sel[1].called /\ sel[1].args.aggressive) =>
      \A i \in 1..Len(sel[1].snapshot) : \A len \in 2..Len(sel[1].snapshot) :
        ( /\ AdjacentRun(sel[1].snapshot, sel[1].args, i, len)
          /\ EnoughDiskSpace(sel[1].args,
                 SumOf(SubSeq(sel[1].snapshot, i, i + len - 1), "size_in_bytes")) )
          => /\ ValidRun(sel[1].snapshot, sel[1].args, i, len)
             /\ sel[1].found

\* What the source computes: when aggressive is set, such a run with the disk
\* headroom is valid exactly when it has min_len parts, whatever its balance.
C15_AggressiveFromMinLen ==
    (sel[1].called /\ sel[1].args.aggressive) =>
      \A i \in 1..Len(sel[1].snapshot) : \A len \in 2..Len(sel[1].snapshot) :
        ( /\ AdjacentRun(sel[1].snapshot, sel[1].args, i, len)
          /\ EnoughDiskSpace(sel[1].args,
                 SumOf(SubSeq(sel[1].snapshot, i, i + len - 1), "size_in_bytes")) )
          => LET ps == SubSeq(sel[1].snapshot, i, i + len - 1)
             IN  ValidRun(sel[1].snapshot, sel[1].args, i, len)
                   <=> len >= min_len(MaxOf(ps, "size"), now - RunModificationTime(ps))

\* An aggressive selection on two large young parts that fit the disk: nothing is selected.
C15_FromMinLenWitness ==
    /\ sel[1].called /\ sel[1].args.aggressive /\ ~sel[1].found
    /\ Len(sel[1].snapshot) = 2
    /\ AdjacentRun(sel[1].snapshot, sel[1].args, 1, 2)
    /\ EnoughDiskSpace(sel[1].args, SumOf(sel[1].snapshot, "size_in_bytes"))


\* The runs of the snapshot of the call whose parts may be joined: positions <<i, len>>.
JoinableRuns ==
    { r \in (1..Len(sel[1].snapshot)) \X (2..Len(sel[1].snapshot)) :
        /\ AdjacentRun(sel[1].snapshot, sel[1].args, r[1], r[2])
        /\ \A k \in r[1]..(r[1] + r[2] - 1) : ~TooLarge(sel[1].args, sel[1].snapshot[k]) }

\* C16 as claimed: the age of a run that the selection uses is that of its
\* oldest part, now - min(modification_time); with merge_anything_for_old_months
\* set, in an old month, a run whose oldest part was modified more than 15
\* days ago (and that has min_len parts and the disk headroom) is valid, also
\* when another of its parts was modified more recently.
C16_AgeOfOldestPart ==
    sel[1].called =>
      \A r \in JoinableRuns :
        LET ps     == SubSeq(sel[1].snapshot, r[1], r[1] + r[2] - 1)
            oldest == MinOf(ps, "modification_time")
        IN  /\ RunModificationTime(ps) = oldest
            /\ ( /\ sel[1].args.merge_anything_for_old_months
                 /\ is_old_month(ps[1].left_month)
                 /\ now - oldest > FIFTEEN_DAYS
                 /\ r[2] >= min_len(MaxOf(ps, "size"), now - oldest)
                 /\ EnoughDiskSpace(sel[1].args, SumOf(ps, "size_in_bytes")) )
                 => ValidRun(sel[1].snapshot, sel[1].args, r[1], r[2])

\* What the source computes: the age of a run is that of its most recently
\* modified part, now - max(modification_time), and the old-month exemption
\* needs every part of the run to be older than 15 days.
C16_AgeOfNewestPart ==
    sel[1].called =>
      \A r \in JoinableRuns :
        LET ps     == SubSeq(sel[1].snapshot, r[1], r[1] + r[2] - 1)
            newest == MaxOf(ps, "modification_time")
        IN  /\ RunModificationTime(ps) = newest
            /\ ( /\ sel[1].args.merge_anything_for_old_months
                 /\ is_old_month(ps[1].left_month)
                 /\ ~sel[1].args.aggressive
                 /\ ~Balanced(MaxOf(ps, "size"), SumOf(ps, "size"), now - newest) )
                 => ( ValidRun(sel[1].snapshot, sel[1].args, r[1], r[2])
                        => \A k \in 1..r[2] : now - ps[k].modification_time > FIFTEEN_DAYS )

\* An old month, merge_anything_for_old_months set, two parts that fit the
\* disk, the first modified 20 days ago and the second an hour ago, not
\* balanced: nothing is selected.
C16_NewestWitness ==
    /\ sel[1].called /\ ~sel[1].found
    /\ sel[1].args.merge_anything_for_old_months /\ ~sel[1].args.aggressive
    /\ Len(sel[1].snapshot) = 2
    /\ <<1, 2>> \in JoinableRuns
    /\ is_old_month(sel[1].snapshot[1].left_month)
    /\ now - sel[1].snapshot[1].modification_time > FIFTEEN_DAYS
    /\ now - sel[1].snapshot[2].modification_time < SIX_HOURS
    /\ EnoughDiskSpace(sel[1].args, SumOf(sel[1].snapshot, "size_in_bytes"))


\* The run of len parts from position i of P is valid: as the source computes
\* it (ValidRun), or by the rule as specified (SpecifiedValidRun).
IsValidRun(specified, P, a, i, len) ==
    IF specified THEN SpecifiedValidRun(P, a, i, len) ELSE ValidRun(P, a, i, len)

\* The length of the longest valid run of P that starts at position i, 0 if
\* there is none.
LongestValidLen(specified, P, a, i) ==
    LET lens == {len \in 2..Len(P) : IsValidRun(specified, P, a, i, len)}
    IN  IF lens = {} THEN 0 ELSE CHOOSE len \in lens : \A l2 \in lens : l2 <= len

\* The start positions of the candidates: the longest valid run from i
\* exists and the longest valid run of no position to its left covers it.
CandidateStarts(specified, P, a) ==
    { i \in 1..Len(P) :
        /\ LongestValidLen(specified, P, a, i) >= 2
        /\ \A j \in 1..(i - 1) :
             j + LongestValidLen(specified, P, a, j) < i + LongestValidLen(specified, P, a, i) }

\* <<maximum size, minimum size, -length, start>> of the candidate that starts at i.
CandidateKey(specified, P, a, i) ==
    LET ps == SubSeq(P, i, i + LongestValidLen(specified, P, a, i) - 1)
    IN  <<MaxOf(ps, "size"), MinOf(ps, "size"), -Len(ps), i>>

\* Lexicographic order on such keys.
KeyLessEq(x, y) ==
    \/ x[1] < y[1]
    \/ x[1] = y[1] /\ x[2] < y[2]
    \/ x[1] = y[1] /\ x[2] = y[2] /\ x[3] < y[3]
    \/ x[1] = y[1] /\ x[2] = y[2] /\ x[3] = y[3] /\ x[4] <= y[4]

\* The run selected is the least candidate, for one of the two readings of "valid".
SelectsLeastCandidate(specified) ==
    sel[1].called =>
      LET P == sel[1].snapshot
          a == sel[1].args
          C == CandidateStarts(specified, P, a)
      IN  /\ sel[1].found <=> C # {}
          /\ sel[1].found =>
               /\ sel[1].best_begin \in C
               /\ Len(sel[1].parts) = LongestValidLen(specified, P, a, sel[1].best_begin)
               /\ \A i \in C : KeyLessEq(CandidateKey(specified, P, a, sel[1].best_begin),
                                         CandidateKey(specified, P, a, i))

\* C17: selectPartsToMerge selects a run exactly when there is a candidate
\* (the longest valid run of a start position, not covered from the left),
\* and the run selected is the candidate that is least in (maximum part
\* size, minimum part size, -length), the earliest of them when several
\* candidates agree on all three; valid as the validity rule is specified.
C17_LeastCandidate == SelectsLeastCandidate(TRUE)

\* C17 with the validity the source computes.
C17_LeastComputedCandidate == SelectsLeastCandidate(FALSE)

\* Two candidates agree on maximum, minimum and length, and the earlier one
\* is selected.
C17_ComputedWitness ==
    /\ Selected
    /\ \E i \in CandidateStarts(FALSE, sel[1].snapshot, sel[1].args) :
         /\ i > sel[1].best_begin
         /\ \A k \in 1..3 :
              CandidateKey(FALSE, sel[1].snapshot, sel[1].args, i)[k]
                = CandidateKey(FALSE, sel[1].snapshot, sel[1].args, sel[1].best_begin)[k]


(***************************************************************************)
(* mergeParts on a run it is given, whatever the run: worker 1 holds the   *)
(* whole part set as its run; a part of it may overlap or touch its        *)
(* predecessor.                                                            *)
(***************************************************************************)
GivenLayouts(n) ==
    {<<"plain", 0>>} \cup {<<s, k>> : s \in {"overlap", "touch"}, k \in 2..n}

InitGiven ==
    /\ now = 95 * 24 + 12
    /\ mode \in Modes
    /\ settings = SettingsOf(3)
    /\ canceled = FALSE
    /\ \E n \in 2..MaxSnapshot : \E sizes \in [1..n -> {0, 1}] : \E sh \in GivenLayouts(n) :
         data_parts = [i \in 1..n |-> InitialPart(i, sizes[i], 480, 90, ShapeOf(sh, i), now)]
    /\ parts = [w \in Workers |-> IF w = 1 THEN data_parts ELSE <<>>]
    /\ sel = [w \in Workers |-> IF w = 1 THEN GivenRun(data_parts, 1, data_parts) ELSE NoSel]
    /\ pc = [w \in Workers |-> IF w = 1 THEN "selected" ELSE "idle"]
    /\ currently_merging = Names(data_parts)
    /\ new_data_part = [w \in Workers |-> NoPart]
    /\ src_streams = [w \in Workers |-> 0]
    /\ to = [w \in Workers |-> NoStream]
    /\ result = [w \in Workers |-> [kind |-> "none"]]
    /\ tmp_parts = {}

SpecGiven == InitGiven /\ [][NextPair]_vars

\* Some part of the run begins before the end of its predecessor.
RunOverlaps(ps) == \E k \in 2..Len(ps) : ps[k].left < ps[k - 1].right

\* C18 as claimed: mergeParts on a run in which a part overlaps its
\* predecessor ends with an exception and does not publish: the part set is
\* the one it was given.
C18_OverlapIsFatal ==
    (pc[1] = "done" /\ RunOverlaps(parts[1])) =>
      /\ result[1].kind = "exception"
      /\ data_parts = sel[1].snapshot

\* What the source computes: mergeParts does not look at the block numbers
\* of the parts of the run, except to take the left of the first and the
\* right of the last; an uncancelled Ordinary merge of a run that holds rows
\* publishes, whether parts of the run overlap or not.
C18_OverlapIsMerged ==
    (pc[1] = "done" /\ ~canceled /\ mode = "Ordinary" /\ SourceBlocks(parts[1]) >= 1) =>
      /\ Published(1)
      /\ data_parts = <<new_data_part[1]>>
      /\ new_data_part[1].left = parts[1][1].left
      /\ new_data_part[1].right = parts[1][Len(parts[1])].right

\* An Ordinary merge of a run with an overlap has published.
C18_MergedWitness ==
    /\ Published(1)
    /\ RunOverlaps(parts[1])
    /\ ~canceled
    /\ data_parts = <<new_data_part[1]>>


(***************************************************************************)
(* The order of the part set, under Spec.                                  *)
(***************************************************************************)
\* The part set is sorted by (month, left), every part lies in one month and
\* a part begins no earlier than its predecessor of the same month ends.
WellOrdered(P) ==
    \A i \in 1..Len(P) :
      /\ P[i].left_month = P[i].right_month
      /\ i > 1 =>
           \/ P[i - 1].left_month < P[i].left_month
           \/ /\ P[i - 1].left_month = P[i].left_month
              /\ P[i - 1].left <= P[i].left
              /\ P[i - 1].right <= P[i].left

\* For each month of the part set, the leftmost left and the rightmost
\* right of its parts.
Extremes(P) ==
    [ mth \in {P[i].left_month : i \in 1..Len(P)} |->
        LET of == {i \in 1..Len(P) : P[i].left_month = mth}
        IN  << CHOOSE l \in {P[i].left : i \in of} : \A j \in of : l <= P[j].left,
               CHOOSE r \in {P[i].right : i \in of} : \A j \in of : r >= P[j].right >> ]

\* C19: from a part set sorted by (month, left) whose parts lie in one month
\* each and do not overlap, every step of selectPartsToMerge and mergeParts,
\* of one worker or of several, cancelled or not, with an empty output or
\* not, leaves the part set so, and changes neither the leftmost left nor
\* the rightmost right of any month.
C19_OrderPreserved ==
    /\ [] WellOrdered(data_parts)
    /\ [][Extremes(data_parts') = Extremes(data_parts)]_vars

\* Two workers have merged disjoint runs of one part set, one of them a run
\* of two parts that touch, and the set is in order.
C19_Witness ==
    /\ Published(1) /\ Published(2)
    /\ \E k \in 2..Len(parts[1]) : parts[1][k].left = parts[1][k - 1].right
    /\ Len(data_parts) = 2
    /\ WellOrdered(data_parts)


(***************************************************************************)
(* The merge loop of one worker in Ordinary mode: selectPartsToMerge, then *)
(* mergeParts on the run returned, then the parts are released; nothing is *)
(* inserted and nothing is cancelled.  The parts hold 1 or 3 marks: in     *)
(* Ordinary mode no part is empty.                                         *)
(***************************************************************************)
InitLoop ==
    /\ now = 95 * 24 + 12
    /\ mode = "Ordinary"
    /\ \E k \in {2, 3} : settings = SettingsOf(k)
    /\ \E n \in 1..MaxParts : \E sizes \in [1..n -> {1, 3}] : \E b \in {0, 2} :
         /\ b <= n - 1
         /\ data_parts = [i \in 1..n |-> InitialPart(i, sizes[i], 480, MonthOf(b, i), "plain", now)]
    /\ currently_merging = {}
    /\ InitWorkers

\* The steps of a mergeParts that is not cancelled, in Ordinary mode, on
\* parts that hold rows.
MergeLoopStep(w) ==
    \/ mergeParts_begin(w)
    \/ mergeParts_loop_write(w)
    \/ mergeParts_loop_end(w)
    \/ mergeParts_test_passed(w)
    \/ mergeParts_publish(w)

NextLoop ==
    \/ SelectToMerge(1)
    \/ MergeLoopStep(1)
    \/ Finish(1)

\* The worker keeps running: weak fairness of each of its steps.  The
\* fairness of SelectToMerge(1) is written out, WF_vars(A) being
\* []<>(~ENABLED <<A>>_vars) \/ []<><<A>>_vars, with SelectEnabled(1) for
\* ENABLED <<SelectToMerge(1)>>_vars: selectPartsToMerge returns for every
\* part set, and the call changes sel whenever SelectEnabled holds.
SpecLoop ==
    /\ InitLoop
    /\ [][NextLoop]_vars
    /\ ([]<>(~SelectEnabled(1)) \/ []<><<SelectToMerge(1)>>_vars)
    /\ WF_vars(MergeLoopStep(1))
    /\ WF_vars(Finish(1))

\* selectPartsToMerge was called on the part set as it is and returned false.
NothingToMerge ==
    /\ pc[1] = "idle"
    /\ sel[1].called /\ ~sel[1].found
    /\ sel[1].snapshot = data_parts

\* C20: in Ordinary mode, with nothing inserted and nothing cancelled, the
\* loop of selectPartsToMerge and mergeParts ends: every mergeParts of the
\* loop publishes, it replaces a run of at least 2 parts by one part, so
\* every change of the part set makes it smaller, and at last
\* selectPartsToMerge returns no selection, for ever.
C20_LoopTerminates ==
    /\ [] (pc[1] = "done" => Published(1))
    /\ [][ data_parts' # data_parts =>
             /\ Len(parts[1]) >= 2
             /\ Len(data_parts') = Len(data_parts) - Len(parts[1]) + 1
             /\ Len(data_parts') < Len(data_parts) ]_vars
    /\ <>[] NothingToMerge

\* The loop has merged twice (a part of level 3 is made of a merged part)
\* and selectPartsToMerge has then returned no selection.
C20_Witness ==
    /\ NothingToMerge
    /\ \E i \in 1..Len(data_parts) : data_parts[i].level >= 3

====
